---- MODULE Spec2Model ----
(***************************************************************************)
(* Model of crates/socket/src/lib.rs: a request/response RPC over a Unix   *)
(* domain socket.  SocketServer owns a handler registry, binds the socket  *)
(* path, accepts connections and spawns one handle_connection task per     *)
(* connection; SocketClient::send_request / send_request_no_response make  *)
(* one exchange per call on a fresh connection.                            *)
(*                                                                         *)
(* Options are sequences of length <= 1 (<<>> is None, <<v>> is Some(v)).  *)
(* Strings built by format! are sequences of their pieces.  A JSON value   *)
(* is <<"null">> or <<"val", v>>.  A message on the wire is a JSON         *)
(* document together with its length in bytes.                             *)
(***************************************************************************)
EXTENDS Naturals, Sequences, FiniteSets

VARIABLES path, srv, handlers, backlog, started, call, conn, task,
          inst, accept_failed, regs

vars == <<path, srv, handlers, backlog, started, call, conn, task,
          inst, accept_failed, regs>>

(***************************************************************************)
(* Bounds of the model.                                                    *)
(***************************************************************************)
\* number of client calls made over a run
MaxCalls == 2
\* capacity of the listener's queue of connections not yet accepted
Backlog == 1
\* register_handler calls recorded in the history of registrations
MaxRegs == 3
\* servers started on the one socket path (each its own process or task)
MaxServers == 2
\* worker threads of the tokio runtime the server's tasks are spawned on
\* (#[tokio::test] builds a current-thread runtime: one)
Workers == 1

Calls == 1..MaxCalls

Servers == 1..MaxServers

(***************************************************************************)
(* Program constants.                                                      *)
(***************************************************************************)
\* vec![0u8; 8192]: the capacity of the one read buffer of either side
BufSize == 8192

\* the command names requests and registrations use
Commands == {"start", "stop"}

\* a request_id a handler hard-codes instead of copying the payload's: the id
\* of no call of the run
OtherId == MaxCalls + 1

\* Data values are tagged tuples.  NullVal is a value of the response type R
\* whose JSON encoding is `null` (the unit value of R = (), None of
\* R = Option<X>, Value::Null).
NullVal == <<"unit">>

\* a value of T whose encoding is longer than the read buffer
Big == <<"big">>

\* a value of a type the server's T does not deserialize from
Alien == <<"alien">>

\* the value of T that call c sends
DataOf(c) == <<"d", c>>

\* Data a client can put in the request of call c
ReqData(c) == {DataOf(c), Alien, Big}

\* the tags of the values of the server's T
ServerT == {"d", "big"}

\* The closures an application registers (values of type RequestHandler).
Handlers == {"h1", "h2"}

None == <<>>
Some(v) == <<v>>

Min(a, b) == IF a <= b THEN a ELSE b

(***************************************************************************)
(* Envelope model: factories, wire encoding and decoding.                  *)
(***************************************************************************)
\* SocketPayload::new with the Uuid drawn for the call
SocketPayload_new(id, command, data) ==
    [request_id |-> id, command |-> command, data |-> data]

NoPayload == SocketPayload_new(0, "", <<>>)

SocketResponse_success(id, data) ==
    [request_id |-> id, success |-> TRUE, data |-> Some(data), error |-> None]

SocketResponse_error(id, msg) ==
    [request_id |-> id, success |-> FALSE, data |-> None, error |-> Some(msg)]

\* serde_json's encoding of a data value: the unit-like value is `null`
JsonOfData(d) == IF d = NullVal THEN <<"null">> ELSE <<"val", d>>

JsonOfString(s) == <<"val", s>>

\* Option<R>: None is `null`, Some(x) is x's own encoding
JsonOfOptionData(o) == IF o = None THEN <<"null">> ELSE JsonOfData(o[1])

\* Option<String>
JsonOfOptionString(o) == IF o = None THEN <<"null">> ELSE JsonOfString(o[1])

\* deserialize_option: `null` is None, anything else is Some of the value
OptionOfJson(j) == IF j[1] = "null" THEN None ELSE Some(j[2])

\* bytes the encoding of a data value takes
DataLen(d) == IF d = Big THEN 9000 ELSE 8

SerializePayload(p) ==
    [request_id |-> p.request_id, command |-> p.command, data |-> JsonOfData(p.data)]

SerializeResponse(r) ==
    [request_id |-> r.request_id,
     success    |-> r.success,
     data       |-> JsonOfOptionData(r.data),
     error      |-> JsonOfOptionString(r.error)]

\* serde_json::to_string(&payload): the document and its length
PayloadToString(p) == [doc |-> SerializePayload(p), len |-> 80 + DataLen(p.data)]

ResponseToString(r) ==
    [doc |-> SerializeResponse(r),
     len |-> 90 + (IF r.data = None \/ r.data = Some(NullVal) THEN 4 ELSE DataLen(r.data[1]))]

\* stream.read(&mut buffer): at most BufSize bytes of what was sent
ReadLen(msg) == Min(msg.len, BufSize)

DeserializePayload_Truncated(msg, n) ==
    IF msg.doc.data[1] = "val" /\ msg.doc.data[2][1] \in ServerT
    THEN Some(SocketPayload_new(msg.doc.request_id, msg.doc.command, msg.doc.data[2]))
    ELSE None

\* serde_json::from_str::<SocketPayload<T, R>>: None when the bytes read are
\* not one whole document or `data` is not a T
DeserializePayload(msg, n) ==
    IF n = msg.len /\ msg.doc.data[1] = "val" /\ msg.doc.data[2][1] \in ServerT
    THEN Some(SocketPayload_new(msg.doc.request_id, msg.doc.command, msg.doc.data[2]))
    ELSE None

\* serde_json::from_str::<SocketResponse<R>>
DeserializeResponse(msg, n) ==
    IF n = msg.len
    THEN Some([request_id |-> msg.doc.request_id,
               success    |-> msg.doc.success,
               data       |-> OptionOfJson(msg.doc.data),
               error      |-> OptionOfJson(msg.doc.error)])
    ELSE None

\* Display of SocketError
ErrorToString(e) ==
    CASE e = "InvalidRequest"    -> <<"Invalid request format">>
      [] e = "ConnectionTimeout" -> <<"Connection timed out">>
      [] OTHER                   -> <<"IO error: ", e>>

\* format!("No handler for command: {}", command)
NoHandlerMessage(command) == <<"No handler for command: ", command>>

\* What a registered closure can return for a payload: <<"Ok", response>> or
\* <<"Err", error>>.  A closure may consult state of its own (the example's
\* process store), so the same payload can get any of these: a success built
\* from the payload (tests, lines 35-40), an error response (example, line
\* 115), a success whose data encodes as null, a success under a hard-coded
\* request_id, a success with data larger than the read buffer, an error.
HandlerReturns(h, p) ==
    { <<"Ok", SocketResponse_success(p.request_id, p.data)>>,
      <<"Ok", SocketResponse_error(p.request_id, <<"Invalid request format">>)>>,
      <<"Ok", SocketResponse_success(p.request_id, NullVal)>>,
      <<"Ok", SocketResponse_success(OtherId, p.data)>>,
      <<"Ok", SocketResponse_success(p.request_id, Big)>>,
      <<"Err", "InvalidRequest">> }

(***************************************************************************)
(* State.                                                                  *)
(*   path     what is at the socket path: "absent", "stale" (a file with   *)
(*            no listener) or "bound" (the running server's listener)      *)
(*   srv      the SocketServer: "new", "listening" (in run), "stopped"     *)
(*   handlers the registry: command -> Option of the closure registered    *)
(*   backlog  connections made and not yet accepted                        *)
(*   started  client calls begun; call c carries request_id c              *)
(*   call[c]  the client call: pc, kind ("request" | "noresp"), payload,   *)
(*            saw (the path's state at connect), at (the step it ended     *)
(*            at), result ("Ok" or the SocketError), resp (the Response    *)
(*            returned), rd (how the read ended), rx and n (the message    *)
(*            read and the bytes of it that fit the buffer), connects /    *)
(*            writes / reads (connect attempts, write_all calls and        *)
(*            stream.read calls the call has made)                         *)
(*   conn[c]  the connection of call c: what each side has written, and    *)
(*            which ends are open                                          *)
(*   task[c]  the handle_connection task of that connection: pc, reads     *)
(*            (calls of stream.read), n (bytes read), payload decoded,     *)
(*            handler found, arg (the closure called and the payload it    *)
(*            was called with), invoked (times a                           *)
(*            handler ran), ret (what it returned), resp (the Response     *)
(*            passed to write_all), writes (write_all calls), out (the     *)
(*            task's result)                                               *)
(*   inst[s]  server s of several started on the same path: st ("new",     *)
(*            "starting" between the removal and the bind, "listening",    *)
(*            "failed" when run returned Err), err (the error returned),   *)
(*            linked (the file at the path is its socket), queue (the      *)
(*            connections waiting at its listener), got (those it has      *)
(*            accepted), since / cut (the calls begun when it bound the    *)
(*            path / when its socket file was removed)                     *)
(*   accept_failed  accept has returned an error, which run has logged     *)
(*   regs     history: the register_handler calls made, in order, as       *)
(*            <<command, closure>>; kept only where the registry itself    *)
(*            is under study                                               *)
(***************************************************************************)
NoCall ==
    [pc |-> "idle", kind |-> "", payload |-> NoPayload, saw |-> "",
     at |-> "", result |-> "", resp |-> None, rd |-> "", rx |-> None, n |-> 0,
     connects |-> 0, writes |-> 0, reads |-> 0]

NoConn ==
    [c2s |-> None, c2sClosed |-> FALSE, s2c |-> None,
     cliOpen |-> FALSE, srvOpen |-> FALSE]

NoTask ==
    [pc |-> "none", reads |-> 0, n |-> 0, payload |-> NoPayload, handler |-> None,
     invoked |-> 0, arg |-> None, ret |-> None, resp |-> None, writes |-> 0, out |-> ""]

NoInst ==
    [st |-> "new", err |-> "", linked |-> FALSE, queue |-> <<>>, got |-> {},
     since |-> 0, cut |-> 0]

Init ==
    /\ path \in {"absent", "stale"}
    /\ srv = "new"
    /\ handlers = [k \in Commands |-> None]
    /\ backlog = <<>>
    /\ started = 0
    /\ call = [c \in Calls |-> NoCall]
    /\ conn = [c \in Calls |-> NoConn]
    /\ task = [c \in Calls |-> NoTask]
    /\ inst = [s \in Servers |-> NoInst]
    /\ accept_failed = FALSE
    /\ regs = <<>>

(***************************************************************************)
(* Server: SocketServer::register_handler, run, handle_connection.         *)
(***************************************************************************)
RegisterHandler_KeepsFirst(k, h) ==
    /\ srv = "new"
    /\ handlers' = IF handlers[k] = None
                   THEN [handlers EXCEPT ![k] = Some(h)]
                   ELSE handlers
    /\ UNCHANGED <<inst, accept_failed, path, srv, backlog, started, call, conn, task>>

\* register_handler(&self, command, handler).  run(self) consumes the server,
\* so registrations are made on a server that has not been started.
RegisterHandler(k, h) ==
    /\ srv = "new"
    /\ handlers' = [handlers EXCEPT ![k] = Some(h)]
    /\ UNCHANGED <<inst, accept_failed, path, srv, backlog, started, call, conn, task>>

\* run: remove the file at the socket path if there is one, bind, listen
Run ==
    /\ srv = "new"
    /\ srv' = "listening"
    /\ path' = "bound"
    /\ UNCHANGED <<inst, accept_failed, handlers, backlog, started, call, conn, task, regs>>

\* the accept loop: Ok((stream, _)) => tokio::spawn(handle_connection)
Accept ==
    /\ srv = "listening"
    /\ backlog # <<>>
    /\ task' = [task EXCEPT ![Head(backlog)].pc = "read"]
    /\ backlog' = Tail(backlog)
    /\ UNCHANGED <<inst, accept_failed, path, srv, handlers, started, call, conn, regs>>

\* The run future is aborted (server_handle.abort() in the tests): the
\* listener is dropped, its socket file stays, connections still in its queue
\* are closed; the spawned connection tasks are detached and keep running.
Abort ==
    /\ srv = "listening"
    /\ srv' = "stopped"
    /\ path' = "stale"
    /\ backlog' = <<>>
    /\ conn' = [c \in Calls |->
                  IF \E i \in 1..Len(backlog) : backlog[i] = c
                  THEN [conn[c] EXCEPT !.srvOpen = FALSE]
                  ELSE conn[c]]
    /\ UNCHANGED <<inst, accept_failed, handlers, started, call, task, regs>>

ReadRequest_EmptyIsError(msg, n) ==
    IF n = 0 THEN <<"done", "InvalidRequest", NoPayload>>
    ELSE IF DeserializePayload(msg[1], n) = None
         THEN <<"done", "InvalidRequest", NoPayload>>
         ELSE <<"lookup", "", DeserializePayload(msg[1], n)[1]>>

\* handle_connection, lines 267-284: the one read, the empty-read return and
\* the decode.  <<next pc, outcome, payload>>
ReadRequest(msg, n) ==
    IF n = 0 THEN <<"done", "Ok", NoPayload>>
    ELSE IF DeserializePayload(msg[1], n) = None
         THEN <<"done", "InvalidRequest", NoPayload>>
         ELSE <<"lookup", "", DeserializePayload(msg[1], n)[1]>>

TaskRead_AnswersUndecodable(c) ==
    /\ task[c].pc = "read"
    /\ conn[c].c2s # None \/ conn[c].c2sClosed \/ ~conn[c].cliOpen
    /\ LET n == IF conn[c].c2s = None THEN 0 ELSE ReadLen(conn[c].c2s[1])
           r == ReadRequest(conn[c].c2s, n)
       IN IF r[2] = "InvalidRequest"
          THEN /\ task' = [task EXCEPT
                     ![c].pc = "write", ![c].reads = @ + 1, ![c].n = n,
                     ![c].resp = Some(SocketResponse_error(0, ErrorToString(r[2])))]
               /\ conn' = conn
          ELSE /\ task' = [task EXCEPT ![c].pc = r[1], ![c].reads = @ + 1, ![c].n = n,
                                       ![c].out = r[2], ![c].payload = r[3]]
               /\ conn' = [conn EXCEPT ![c].srvOpen = (r[1] # "done")]
    /\ UNCHANGED <<inst, accept_failed, path, srv, handlers, backlog, started, call, regs>>

TaskRead(c) ==
    /\ task[c].pc = "read"
    /\ conn[c].c2s # None \/ conn[c].c2sClosed \/ ~conn[c].cliOpen
    /\ LET n == IF conn[c].c2s = None THEN 0 ELSE ReadLen(conn[c].c2s[1])
           r == ReadRequest(conn[c].c2s, n)
       IN /\ task' = [task EXCEPT ![c].pc = r[1], ![c].reads = @ + 1, ![c].n = n,
                                  ![c].out = r[2], ![c].payload = r[3]]
          /\ conn' = [conn EXCEPT ![c].srvOpen = (r[1] # "done")]
    /\ UNCHANGED <<inst, accept_failed, path, srv, handlers, backlog, started, call, regs>>

NotFoundResponse_NoName(request_id, command) ==
    SocketResponse_error(request_id, NoHandlerMessage(""))

\* lines 303-306: the response for a command the registry does not hold
NotFoundResponse(request_id, command) ==
    SocketResponse_error(request_id, NoHandlerMessage(command))

TaskLookup_AnyCommand(c) ==
    /\ task[c].pc = "lookup"
    /\ \E k \in Commands :
         IF handlers[k] # None
         THEN task' = [task EXCEPT ![c].pc = "handler", ![c].handler = handlers[k]]
         ELSE task' = [task EXCEPT
                  ![c].pc = "write",
                  ![c].resp = Some(NotFoundResponse(task[c].payload.request_id,
                                                    task[c].payload.command))]
    /\ UNCHANGED <<inst, accept_failed, path, srv, handlers, backlog, started, call, conn, regs>>

\* lines 286-288 and 302-307: handlers.read().await; handlers.get(command)
TaskLookup(c) ==
    /\ task[c].pc = "lookup"
    /\ LET p == task[c].payload
       IN IF handlers[p.command] # None
          THEN task' = [task EXCEPT ![c].pc = "handler",
                                    ![c].handler = handlers[p.command]]
          ELSE task' = [task EXCEPT ![c].pc = "write",
                                    ![c].resp = Some(NotFoundResponse(p.request_id, p.command))]
    /\ UNCHANGED <<inst, accept_failed, path, srv, handlers, backlog, started, call, conn, regs>>

\* lines 289-300: the response written for what the handler returned
HandlerResponse(request_id, res) ==
    IF res[1] = "Ok" THEN res[2]
    ELSE SocketResponse_error(request_id, ErrorToString(res[2]))

\* line 289: handler(payload), run to completion inside the task
TaskHandler(c) ==
    /\ task[c].pc = "handler"
    /\ \E res \in HandlerReturns(task[c].handler[1], task[c].payload) :
         task' = [task EXCEPT
              ![c].pc = "write",
              ![c].invoked = @ + 1,
              ![c].arg = Some(<<task[c].handler[1], task[c].payload>>),
              ![c].ret = Some(res),
              ![c].resp = Some(HandlerResponse(task[c].payload.request_id, res))]
    /\ UNCHANGED <<inst, accept_failed, path, srv, handlers, backlog, started, call, conn, regs>>

TaskWrite_Crossed(c) ==
    /\ task[c].pc = "write"
    /\ \E d \in Calls :
         /\ IF \E e \in Calls \ {c} : conn[e].cliOpen /\ conn[e].s2c = None
            THEN d # c /\ conn[d].cliOpen /\ conn[d].s2c = None
            ELSE d = c
         /\ task' = [task EXCEPT ![c].pc = "done", ![c].writes = @ + 1,
                                 ![c].out = IF conn[d].cliOpen THEN "Ok" ELSE "Io"]
         /\ conn' = [e \in Calls |->
                       [conn[e] EXCEPT
                          !.s2c = IF e = d /\ conn[d].cliOpen
                                  THEN Some(ResponseToString(task[c].resp[1]))
                                  ELSE @,
                          !.srvOpen = IF e = c THEN FALSE ELSE @]]
    /\ UNCHANGED <<inst, accept_failed, path, srv, handlers, backlog, started, call, regs>>

TaskWrite_KeepAlive(c) ==
    /\ task[c].pc = "write"
    /\ task' = [task EXCEPT ![c].pc = "read", ![c].writes = @ + 1,
                            ![c].out = IF conn[c].cliOpen THEN "Ok" ELSE "Io"]
    /\ conn' = [conn EXCEPT
                  ![c].s2c = IF conn[c].cliOpen
                             THEN Some(ResponseToString(task[c].resp[1]))
                             ELSE @]
    /\ UNCHANGED <<inst, accept_failed, path, srv, handlers, backlog, started, call, regs>>

\* to_string + stream.write_all, then the stream is dropped.  A write to a
\* connection whose peer has closed fails (broken pipe).
TaskWrite(c) ==
    /\ task[c].pc = "write"
    /\ task' = [task EXCEPT ![c].pc = "done", ![c].writes = @ + 1,
                            ![c].out = IF conn[c].cliOpen THEN "Ok" ELSE "Io"]
    /\ conn' = [conn EXCEPT
                  ![c].s2c = IF conn[c].cliOpen
                             THEN Some(ResponseToString(task[c].resp[1]))
                             ELSE @,
                  ![c].srvOpen = FALSE]
    /\ UNCHANGED <<inst, accept_failed, path, srv, handlers, backlog, started, call, regs>>

(***************************************************************************)
(* Client: SocketClient::send_request, send_request_no_response.           *)
(***************************************************************************)
\* The call returns: the stream (if any) is dropped with it.
Return(c, at, result, resp) ==
    [call[c] EXCEPT !.pc = "done", !.at = at, !.result = result, !.resp = resp]

ConnectOutcome_StalePends(p, room) ==
    IF p = "absent" THEN {"Io"}
    ELSE IF p = "stale" THEN {"pending"}
    ELSE IF room THEN {"connected"}
    ELSE {"Io", "pending"}

\* UnixStream::connect(&socket_path), lines 334 and 370: what the connect can
\* do for the state of the path.  No file, or a file nobody listens on, is an
\* error at once (not found, connection refused).  A listener with room in
\* its queue connects without waiting for accept.  A listener whose queue is
\* full either refuses at once or leaves the connect pending.
ConnectOutcome(p, room) ==
    IF p # "bound" THEN {"Io"}
    ELSE IF room THEN {"connected"}
    ELSE {"Io", "pending"}

\* the connection made: the stream on the client side, queued at the listener
Connected(c) ==
    /\ conn' = [conn EXCEPT ![c] = [NoConn EXCEPT !.cliOpen = TRUE, !.srvOpen = TRUE]]
    /\ backlog' = Append(backlog, c)

\* A call begins: the payload is built (request_id is the call's own Uuid)
\* and the connect is attempted.
Send(c, kind, command, data) ==
    /\ c = started + 1
    /\ c \in Calls
    /\ started' = c
    /\ \E o \in ConnectOutcome(path, Len(backlog) < Backlog) :
         LET new == [NoCall EXCEPT !.kind = kind, !.saw = path, !.connects = 1,
                         !.payload = SocketPayload_new(c, command, data)]
         IN CASE o = "connected" ->
                   /\ call' = [call EXCEPT ![c] = [new EXCEPT !.pc = "write"]]
                   /\ Connected(c)
              [] o = "pending" ->
                   /\ call' = [call EXCEPT ![c] = [new EXCEPT !.pc = "connect"]]
                   /\ UNCHANGED <<conn, backlog>>
              [] OTHER ->
                   /\ call' = [call EXCEPT ![c] =
                                 [new EXCEPT !.pc = "done", !.at = "connect", !.result = o]]
                   /\ UNCHANGED <<conn, backlog>>
    /\ UNCHANGED <<inst, accept_failed, path, srv, handlers, task, regs>>

send_request(c, command, data) == Send(c, "request", command, data)

send_request_no_response(c, command, data) == Send(c, "noresp", command, data)

\* a pending connect completes, or fails, before the timer fires
ConnectFinish(c) ==
    /\ call[c].pc = "connect"
    /\ \/ /\ path = "bound"
          /\ Len(backlog) < Backlog
          /\ call' = [call EXCEPT ![c].pc = "write"]
          /\ Connected(c)
       \/ /\ path # "bound"
          /\ call' = [call EXCEPT ![c] = Return(c, "connect", "Io", None)]
          /\ UNCHANGED <<conn, backlog>>
    /\ UNCHANGED <<inst, accept_failed, path, srv, handlers, started, task, regs>>

TimeoutError_AsIo == "Io"

\* lines 337 and 350: map_err(|_| SocketError::ConnectionTimeout)
TimeoutError == "ConnectionTimeout"

ConnectTimeout_Retry(c) ==
    /\ call[c].pc = "connect"
    /\ call' = [call EXCEPT ![c].connects = @ + 1]
    /\ UNCHANGED <<inst, accept_failed, path, srv, handlers, backlog, started, conn, task, regs>>

\* lines 332-337: the timer of tokio::time::timeout fires on a pending connect
ConnectTimeout(c) ==
    /\ call[c].pc = "connect"
    /\ call' = [call EXCEPT ![c] = Return(c, "connect", TimeoutError, None)]
    /\ UNCHANGED <<inst, accept_failed, path, srv, handlers, backlog, started, conn, task, regs>>

\* lines 339-340: to_string + write_all; no timer guards the write
ClientWrite(c) ==
    /\ call[c].pc = "write"
    /\ IF conn[c].srvOpen
       THEN /\ conn' = [conn EXCEPT ![c].c2s = Some(PayloadToString(call[c].payload))]
            /\ call' = [call EXCEPT ![c].pc = "shutdown", ![c].writes = @ + 1]
       ELSE /\ conn' = [conn EXCEPT ![c].cliOpen = FALSE]
            /\ call' = [call EXCEPT ![c] =
                           [Return(c, "write", "Io", None) EXCEPT !.writes = @ + 1]]
    /\ UNCHANGED <<inst, accept_failed, path, srv, handlers, backlog, started, task, regs>>

AfterShutdown_AlwaysRead(kind) == "read"

\* what follows stream.shutdown(): send_request goes on to read (line 343),
\* send_request_no_response returns Ok(()) (line 379)
AfterShutdown(kind) == IF kind = "noresp" THEN "done" ELSE "read"

ClientShutdown(c) ==
    /\ call[c].pc = "shutdown"
    /\ IF AfterShutdown(call[c].kind) = "done"
       THEN /\ call' = [call EXCEPT ![c] = Return(c, "return", "Ok", None)]
            /\ conn' = [conn EXCEPT ![c].c2sClosed = TRUE, ![c].cliOpen = FALSE]
       ELSE /\ call' = [call EXCEPT ![c].pc = "read"]
            /\ conn' = [conn EXCEPT ![c].c2sClosed = TRUE]
    /\ UNCHANGED <<inst, accept_failed, path, srv, handlers, backlog, started, task, regs>>

ReadResult_EmptyIsDefault(msg, n) ==
    IF n = 0 THEN <<"return", "Ok", Some(SocketResponse_error(0, <<"">>))>>
    ELSE IF DeserializeResponse(msg[1], n) = None
         THEN <<"decode", "Serialization", None>>
         ELSE <<"return", "Ok", DeserializeResponse(msg[1], n)>>

ReadResult_FailureIsError(msg, n) ==
    IF n = 0 THEN <<"read", "InvalidRequest", None>>
    ELSE IF DeserializeResponse(msg[1], n) = None
         THEN <<"decode", "Serialization", None>>
         ELSE IF DeserializeResponse(msg[1], n)[1].success
              THEN <<"return", "Ok", DeserializeResponse(msg[1], n)>>
              ELSE <<"return", "InvalidRequest", None>>

\* lines 352-360: what send_request makes of the n bytes it read.
\* <<at, result, response>>
ReadResult(msg, n) ==
    IF n = 0 THEN <<"read", "InvalidRequest", None>>
    ELSE IF DeserializeResponse(msg[1], n) = None
         THEN <<"decode", "Serialization", None>>
         ELSE <<"return", "Ok", DeserializeResponse(msg[1], n)>>

\* the server end was closed while bytes of the request were still unread
Unread(c) == conn[c].c2s # None /\ task[c].n < conn[c].c2s[1].len

\* lines 344-350: the one read of the response completes.  With nothing
\* written and the server end closed it returns 0 bytes, or fails with
\* connection reset when the server closed on unread request bytes.
ClientRead(c) ==
    /\ call[c].pc = "read"
    /\ conn[c].s2c # None \/ ~conn[c].srvOpen
    /\ \/ LET n == IF conn[c].s2c = None THEN 0 ELSE ReadLen(conn[c].s2c[1])
              r == ReadResult(conn[c].s2c, n)
          IN call' = [call EXCEPT ![c] =
                 [Return(c, r[1], r[2], r[3]) EXCEPT
                      !.rd = "n", !.n = n, !.rx = conn[c].s2c, !.reads = @ + 1]]
       \/ /\ conn[c].s2c = None
          /\ Unread(c)
          /\ call' = [call EXCEPT ![c] =
                         [Return(c, "read", "Io", None) EXCEPT !.rd = "err", !.reads = @ + 1]]
    /\ conn' = [conn EXCEPT ![c].cliOpen = FALSE]
    /\ UNCHANGED <<inst, accept_failed, path, srv, handlers, backlog, started, task, regs>>

ReadTimeout_Never(c) ==
    /\ FALSE
    /\ UNCHANGED vars

\* lines 345-350: the timer fires on a read that is still pending
ReadTimeout(c) ==
    /\ call[c].pc = "read"
    /\ conn[c].s2c = None
    /\ conn[c].srvOpen
    /\ call' = [call EXCEPT ![c] =
                   [Return(c, "read", TimeoutError, None) EXCEPT
                        !.rd = "timeout", !.reads = @ + 1]]
    /\ conn' = [conn EXCEPT ![c].cliOpen = FALSE]
    /\ UNCHANGED <<inst, accept_failed, path, srv, handlers, backlog, started, task, regs>>

(***************************************************************************)
(* Specification.                                                          *)
(***************************************************************************)
Next ==
    \/ \E k \in Commands, h \in Handlers : RegisterHandler(k, h) /\ UNCHANGED regs
    \/ Run
    \/ Accept
    \/ Abort
    \/ \E c \in Calls : TaskRead(c)
    \/ \E c \in Calls : TaskLookup(c)
    \/ \E c \in Calls : TaskHandler(c)
    \/ \E c \in Calls : TaskWrite(c)
    \/ \E c \in Calls : \E k \in Commands, d \in ReqData(c) : send_request(c, k, d)
    \/ \E c \in Calls : \E k \in Commands, d \in ReqData(c) : send_request_no_response(c, k, d)
    \/ \E c \in Calls : ConnectFinish(c)
    \/ \E c \in Calls : ConnectTimeout(c)
    \/ \E c \in Calls : ClientWrite(c)
    \/ \E c \in Calls : ClientShutdown(c)
    \/ \E c \in Calls : ClientRead(c)
    \/ \E c \in Calls : ReadTimeout(c)

Spec == Init /\ [][Next]_vars

(***************************************************************************)
(* The accept loop under accept errors and peers that are not the library  *)
(* client.                                                                 *)
(***************************************************************************)
AcceptError_Propagates ==
    /\ srv = "listening"
    /\ srv' = "returned"
    /\ accept_failed' = TRUE
    /\ UNCHANGED <<path, handlers, backlog, started, call, conn, task, inst, regs>>

\* lines 256-258: accept returned Err(e) (out of file descriptors, say):
\* the error is printed and the loop goes on to the next accept
AcceptError ==
    /\ srv = "listening"
    /\ srv' = "listening"
    /\ accept_failed' = TRUE
    /\ UNCHANGED <<path, handlers, backlog, started, call, conn, task, inst, regs>>

\* A peer that is not SocketClient (a liveness probe, `nc -U`) connects and
\* sends nothing: it closes at once (the "Empty connection received" of line
\* 271) or keeps the connection open and silent.
RawPeer(c, closes) ==
    /\ c = started + 1
    /\ c \in Calls
    /\ started' = c
    /\ path = "bound"
    /\ Len(backlog) < Backlog
    /\ call' = [call EXCEPT ![c] =
                   [NoCall EXCEPT !.kind = "peer", !.saw = path, !.connects = 1,
                        !.pc = IF closes THEN "done" ELSE "silent"]]
    /\ conn' = [conn EXCEPT ![c] = [NoConn EXCEPT !.cliOpen = ~closes, !.srvOpen = TRUE]]
    /\ backlog' = Append(backlog, c)
    /\ UNCHANGED <<path, srv, handlers, task, inst, accept_failed, regs>>

NextLoop ==
    \/ \E k \in Commands, h \in Handlers : RegisterHandler(k, h) /\ UNCHANGED regs
    \/ Run
    \/ Accept
    \/ AcceptError
    \/ \E c \in Calls : TaskRead(c)
    \/ \E c \in Calls : TaskLookup(c)
    \/ \E c \in Calls : TaskHandler(c)
    \/ \E c \in Calls : TaskWrite(c)
    \/ \E c \in Calls : \E k \in Commands, d \in ReqData(c) : send_request(c, k, d)
    \/ \E c \in Calls : \E closes \in BOOLEAN : RawPeer(c, closes)
    \/ \E c \in Calls : ConnectFinish(c)
    \/ \E c \in Calls : ConnectTimeout(c)
    \/ \E c \in Calls : ClientWrite(c)
    \/ \E c \in Calls : ClientShutdown(c)
    \/ \E c \in Calls : ClientRead(c)
    \/ \E c \in Calls : ReadTimeout(c)

SpecLoop == Init /\ [][NextLoop]_vars

(***************************************************************************)
(* The server's tasks on the runtime's worker threads.  tokio::spawn hands *)
(* the accept loop's connection tasks to the runtime the caller built; a   *)
(* task is polled by a worker thread, which it gives up only at an await.  *)
(* handler(payload) (line 289) is an ordinary call with no await in it:    *)
(* from the registry lookup until the handler returns, the task keeps its  *)
(* worker thread.                                                          *)
(***************************************************************************)
\* the tasks that are inside a handler call, each holding a worker thread
InHandler == {c \in Calls : task[c].pc = "handler"}

\* a worker thread is free to poll a task that is ready
FreeWorker == Cardinality(InHandler) < Workers

PollAccept == FreeWorker /\ Accept

PollAcceptError == FreeWorker /\ AcceptError

PollTaskRead(c) == FreeWorker /\ TaskRead(c)

PollTaskLookup(c) == FreeWorker /\ TaskLookup(c)

PollTaskWrite(c) == FreeWorker /\ TaskWrite(c)

NextRuntime ==
    \/ \E k \in Commands, h \in Handlers : RegisterHandler(k, h) /\ UNCHANGED regs
    \/ Run
    \/ PollAccept
    \/ PollAcceptError
    \/ \E c \in Calls : PollTaskRead(c)
    \/ \E c \in Calls : PollTaskLookup(c)
    \/ \E c \in Calls : TaskHandler(c)
    \/ \E c \in Calls : PollTaskWrite(c)
    \/ \E c \in Calls : \E k \in Commands, d \in ReqData(c) : send_request(c, k, d)
    \/ \E c \in Calls : \E closes \in BOOLEAN : RawPeer(c, closes)
    \/ \E c \in Calls : ConnectFinish(c)
    \/ \E c \in Calls : ConnectTimeout(c)
    \/ \E c \in Calls : ClientWrite(c)
    \/ \E c \in Calls : ClientShutdown(c)
    \/ \E c \in Calls : ClientRead(c)
    \/ \E c \in Calls : ReadTimeout(c)

SpecRuntime == Init /\ [][NextRuntime]_vars

(***************************************************************************)
(* Progress.  The runtime polls every task that is ready, so each step of  *)
(* the accept loop, of a connection's task and of a client call that stays *)
(* enabled is taken.  A pending connect or response read ends when it      *)
(* completes or when the timer of tokio::time::timeout fires.  No          *)
(* assumption is made on the handler call: a closure may never return.     *)
(***************************************************************************)
NextLive ==
    \/ \E k \in Commands, h \in Handlers : RegisterHandler(k, h) /\ UNCHANGED regs
    \/ Run
    \/ Accept
    \/ \E c \in Calls : TaskRead(c)
    \/ \E c \in Calls : TaskLookup(c)
    \/ \E c \in Calls : TaskHandler(c)
    \/ \E c \in Calls : TaskWrite(c)
    \/ \E c \in Calls : \E k \in Commands, d \in ReqData(c) : send_request(c, k, d)
    \/ \E c \in Calls : ConnectFinish(c)
    \/ \E c \in Calls : ConnectTimeout(c)
    \/ \E c \in Calls : ClientWrite(c)
    \/ \E c \in Calls : ClientShutdown(c)
    \/ \E c \in Calls : ClientRead(c)
    \/ \E c \in Calls : ReadTimeout(c)

Fairness ==
    /\ WF_vars(Accept)
    /\ \A c \in Calls :
         /\ WF_vars(TaskRead(c))
         /\ WF_vars(TaskLookup(c))
         /\ WF_vars(TaskWrite(c))
         /\ WF_vars(ConnectFinish(c) \/ ConnectTimeout(c))
         /\ WF_vars(ClientWrite(c))
         /\ WF_vars(ClientShutdown(c))
         /\ WF_vars(ClientRead(c) \/ ReadTimeout(c))

SpecLive == Init /\ [][NextLive]_vars /\ Fairness

(***************************************************************************)
(* The registry with its history of registrations.                         *)
(***************************************************************************)
\* the history records the call register_handler(k, h)
Recorded(k, h) ==
    /\ Len(regs) < MaxRegs
    /\ regs' = Append(regs, <<k, h>>)

NextRegistry ==
    \/ \E k \in Commands, h \in Handlers : RegisterHandler(k, h) /\ Recorded(k, h)
    \/ Run

SpecRegistry == Init /\ [][NextRegistry]_vars

(***************************************************************************)
(* Several servers started on one socket path.  run's three file-system    *)
(* steps (exists, remove_file, bind) are separate system calls: between    *)
(* them another server's steps can take place.                             *)
(***************************************************************************)
\* lines 239-241: if socket_path.exists() { remove_file(socket_path)? }.
\* A listener whose socket file is removed keeps listening, unreachable.
RemoveExisting(s) ==
    /\ inst[s].st = "new"
    /\ path' = "absent"
    /\ inst' = [t \in Servers |->
                  IF t = s THEN [inst[t] EXCEPT !.st = "starting"]
                  ELSE IF inst[t].linked
                       THEN [inst[t] EXCEPT !.linked = FALSE, !.cut = started]
                       ELSE inst[t]]
    /\ UNCHANGED <<srv, handlers, backlog, started, call, conn, task, accept_failed, regs>>

\* line 243: UnixListener::bind(socket_path)?, which creates the socket file
\* and fails (address in use) when the path exists
Bind(s) ==
    /\ inst[s].st = "starting"
    /\ IF path = "absent"
       THEN /\ path' = "bound"
            /\ inst' = [inst EXCEPT ![s].st = "listening", ![s].linked = TRUE,
                                    ![s].since = started]
       ELSE /\ path' = path
            /\ inst' = [inst EXCEPT ![s].st = "failed", ![s].err = "Io"]
    /\ UNCHANGED <<srv, handlers, backlog, started, call, conn, task, accept_failed, regs>>

\* lines 246-254: the accept loop of server s takes a connection
AcceptBy(s) ==
    /\ inst[s].st = "listening"
    /\ inst[s].queue # <<>>
    /\ inst' = [inst EXCEPT ![s].queue = Tail(@), ![s].got = @ \cup {Head(inst[s].queue)}]
    /\ UNCHANGED <<path, srv, handlers, backlog, started, call, conn, task, accept_failed, regs>>

\* lines 332-337: a call's connect; the connection is queued at the listener
\* whose socket file the path names
ConnectTo(c) ==
    /\ c = started + 1
    /\ c \in Calls
    /\ started' = c
    /\ \E o \in ConnectOutcome(path, \E s \in Servers :
                                        inst[s].linked /\ Len(inst[s].queue) < Backlog) :
         LET new == [NoCall EXCEPT !.kind = "request", !.saw = path, !.connects = 1,
                         !.payload = SocketPayload_new(c, "start", DataOf(c))]
         IN CASE o = "connected" ->
                   /\ call' = [call EXCEPT ![c] = [new EXCEPT !.pc = "write"]]
                   /\ conn' = [conn EXCEPT ![c] =
                                 [NoConn EXCEPT !.cliOpen = TRUE, !.srvOpen = TRUE]]
                   /\ inst' = [s \in Servers |->
                                 IF inst[s].linked
                                 THEN [inst[s] EXCEPT !.queue = Append(@, c)]
                                 ELSE inst[s]]
              [] o = "pending" ->
                   /\ call' = [call EXCEPT ![c] = [new EXCEPT !.pc = "connect"]]
                   /\ UNCHANGED <<conn, inst>>
              [] OTHER ->
                   /\ call' = [call EXCEPT ![c] =
                                 [new EXCEPT !.pc = "done", !.at = "connect", !.result = o]]
                   /\ UNCHANGED <<conn, inst>>
    /\ UNCHANGED <<path, srv, handlers, backlog, task, accept_failed, regs>>

NextTakeover ==
    \/ \E s \in Servers : RemoveExisting(s)
    \/ \E s \in Servers : Bind(s)
    \/ \E s \in Servers : AcceptBy(s)
    \/ \E c \in Calls : ConnectTo(c)
    \/ \E c \in Calls : ConnectTimeout(c)

SpecTakeover == Init /\ [][NextTakeover]_vars

(***************************************************************************)
(* Properties.                                                             *)
(***************************************************************************)
\* the task decoded a request and went on to the registry
Dispatched(c) ==
    /\ task[c].pc \in {"handler", "write", "done"}
    /\ task[c].payload # NoPayload

Contains(msg, piece) == \E i \in 1..Len(msg) : msg[i] = piece

\* the handler's own verdict was success: Ok with a success response
ReturnedSuccess(c) ==
    /\ task[c].ret # None
    /\ task[c].ret[1][1] = "Ok"
    /\ task[c].ret[1][2].success

ReturnedFailure(c) ==
    /\ task[c].ret # None
    /\ task[c].ret[1][1] = "Err"

\* C1: for a request whose command has a registered handler, whether the
\* handler returned Ok or Err, the Response passed to write_all carries the
\* request's request_id.
C1_ResponseIdIsRequestId ==
    \A c \in Calls :
        (task[c].handler # None /\ task[c].writes > 0)
            => task[c].resp[1].request_id = task[c].payload.request_id

\* C2: for a decoded request whose command the registry does not hold, no
\* handler runs and exactly one Response is written: success = false, no
\* data, an error naming the command, the request's request_id.
C2_UnknownCommand ==
    \A c \in Calls :
        (Dispatched(c) /\ handlers[task[c].payload.command] = None)
            => /\ task[c].pc # "handler"
               /\ task[c].invoked = 0
               /\ task[c].ret = None
               /\ task[c].resp # None
               /\ ~task[c].resp[1].success
               /\ task[c].resp[1].data = None
               /\ task[c].resp[1].error # None
               /\ Contains(task[c].resp[1].error[1], task[c].payload.command)
               /\ task[c].resp[1].request_id = task[c].payload.request_id
               /\ task[c].resp[1].request_id = call[c].payload.request_id
               /\ task[c].writes = (IF task[c].pc = "done" THEN 1 ELSE 0)
               /\ conn[c].s2c \in {None, Some(ResponseToString(task[c].resp[1]))}
               /\ task[c].out = "Ok" => conn[c].s2c # None

C2_Witness ==
    \E c \in Calls :
        /\ Dispatched(c)
        /\ handlers[task[c].payload.command] = None
        /\ task[c].out = "Ok"
        /\ call[c].kind = "request"
        /\ call[c].result = "Ok"
        /\ ~call[c].resp[1].success

\* C3: when the handler returned success, the response the client receives
\* has success = true, data present and error absent; when the handler
\* returned Err, the client still receives a Response, with success = false,
\* the stringified error present and data absent.
C3_HandlerVerdictReachesClient ==
    \A c \in Calls :
        (call[c].kind = "request" /\ call[c].result = "Ok")
            => /\ ReturnedSuccess(c)
                    => /\ call[c].resp[1].success
                       /\ call[c].resp[1].data # None
                       /\ call[c].resp[1].error = None
               /\ ReturnedFailure(c)
                    => /\ ~call[c].resp[1].success
                       /\ call[c].resp[1].error = Some(ErrorToString(task[c].ret[1][2]))
                       /\ call[c].resp[1].data = None

\* exactly one of data / error, as success says
WellFormed(r) ==
    /\ (r.data # None) <=> r.success
    /\ (r.error # None) <=> ~r.success

\* C5: every Response the server writes and every Response send_request
\* returns has data present iff success and error present iff not success.
C5_ExactlyOneOfDataError ==
    \A c \in Calls :
        /\ task[c].resp # None => WellFormed(task[c].resp[1])
        /\ call[c].resp # None => WellFormed(call[c].resp[1])

\* C4: with any number of send_request calls in flight on their own
\* connections, under every interleaving, the response a call returns is the
\* one the server produced from that call's own request (its request_id, its
\* command, its data), never one produced for another connection.
C4_OwnResponse ==
    \A c \in Calls :
        (call[c].kind = "request" /\ call[c].result = "Ok")
            => /\ task[c].payload = call[c].payload
               /\ task[c].resp # None
               /\ call[c].rx = Some(ResponseToString(task[c].resp[1]))
               /\ call[c].resp = DeserializeResponse(call[c].rx[1], call[c].n)
               /\ task[c].ret # None
                    => /\ task[c].ret[1] \in HandlerReturns(task[c].handler[1], call[c].payload)
                       /\ task[c].resp[1] = HandlerResponse(c, task[c].ret[1])
               /\ task[c].ret = None
                    => task[c].resp[1] = NotFoundResponse(c, call[c].payload.command)
               /\ \A d \in Calls \ {c} :
                    /\ call[c].resp[1].request_id # d
                    /\ call[c].resp[1].data # Some(DataOf(d))

\* a later call has its own response while an earlier one is still in flight
C4_Witness ==
    \E c, d \in Calls :
        /\ c < d
        /\ call[d].kind = "request" /\ call[d].result = "Ok"
        /\ call[d].resp[1].request_id = d
        /\ call[d].resp[1].data = Some(DataOf(d))
        /\ call[c].kind = "request" /\ call[c].pc = "read"
        /\ task[c].pc = "write"
        /\ task[c].resp[1].request_id = c

\* C6 as stated: a connect to a path that exists with no listener bound ends
\* with ConnectionTimeout, a connect to a path that does not exist with Io.
C6_NoListenerTimesOut ==
    \A c \in Calls :
        (call[c].pc = "done" /\ call[c].at = "connect")
            => /\ call[c].saw = "stale" => call[c].result = "ConnectionTimeout"
               /\ call[c].saw = "absent" => call[c].result = "Io"

\* C6, amended: a connect to a path that does not exist, or that exists with
\* no listener bound, fails at once with Io; a connect is left pending, and
\* can end with ConnectionTimeout, only against a bound listener.
C6_NoListenerIsIo ==
    \A c \in Calls :
        /\ call[c].saw \in {"absent", "stale"}
             => /\ call[c].pc = "done"
                /\ call[c].at = "connect"
                /\ call[c].result = "Io"
        /\ call[c].pc = "connect" => call[c].saw = "bound"
        /\ (call[c].at = "connect" /\ call[c].result = "ConnectionTimeout")
             => call[c].saw = "bound"

\* the server was aborted and left its socket file: the next call fails
\* with Io at the connect
C6_Witness ==
    \E c \in Calls :
        /\ srv = "stopped"
        /\ call[c].kind = "request"
        /\ call[c].saw = "stale"
        /\ call[c].at = "connect"
        /\ call[c].result = "Io"

\* C7: when the response read of send_request returns zero bytes, the call
\* fails with InvalidRequest and returns no Response.
C7_EmptyReadIsInvalidRequest ==
    \A c \in Calls :
        (call[c].rd = "n" /\ call[c].n = 0)
            => /\ call[c].pc = "done"
               /\ call[c].result = "InvalidRequest"
               /\ call[c].resp = None

\* the server dropped the connection on a request it could not decode
C7_Witness ==
    \E c \in Calls :
        /\ call[c].rd = "n" /\ call[c].n = 0
        /\ task[c].out = "InvalidRequest"
        /\ task[c].writes = 0

\* C8: send_request returns every decodable Response it reads as Ok and
\* unchanged, success = false included; it turns no application-level
\* failure into a SocketError and no transport or timeout failure into a
\* Response.
C8_ResponsesPassThrough ==
    \A c \in Calls :
        /\ (call[c].rd = "n" /\ call[c].n > 0 /\ call[c].n = call[c].rx[1].len)
             => /\ call[c].result = "Ok"
                /\ call[c].resp # None
                /\ call[c].resp[1].request_id = task[c].resp[1].request_id
                /\ call[c].resp[1].success = task[c].resp[1].success
                /\ call[c].resp[1].error = task[c].resp[1].error
                /\ call[c].resp[1].data = OptionOfJson(call[c].rx[1].doc.data)
        /\ call[c].resp # None
             => /\ call[c].result = "Ok"
                /\ call[c].rd = "n"
                /\ call[c].n = call[c].rx[1].len
        /\ (call[c].pc = "done" /\ call[c].result # "Ok") => call[c].resp = None
        /\ call[c].rd \in {"err", "timeout"}
             => call[c].result \in {"Io", "ConnectionTimeout"}

\* a handler's Err comes back to the caller as Ok(Response { success: false })
C8_Witness ==
    \E c \in Calls :
        /\ ReturnedFailure(c)
        /\ call[c].result = "Ok"
        /\ call[c].resp # None
        /\ ~call[c].resp[1].success

\* the step in which call c ends with result r
Ends(c, r) ==
    /\ call[c].pc # "done"
    /\ call'[c].pc = "done"
    /\ call'[c].result = r

\* C9: only the connect and the response read are guarded by the timeout,
\* each on its own, the write is not; a read on a connection the server has
\* accepted, not answered and not closed ends with ConnectionTimeout; and the
\* step in which a call times out leaves the other calls, their connections
\* and the server as they were.
C9_TimeoutIsLocal ==
    [][\A c \in Calls :
          /\ Ends(c, "ConnectionTimeout")
               => /\ call[c].pc \in {"connect", "read"}
                  /\ \A d \in Calls \ {c} : call'[d] = call[d] /\ conn'[d] = conn[d]
                  /\ UNCHANGED <<path, srv, handlers, backlog, task>>
          /\ (call[c].pc = "read" /\ call'[c].pc = "done"
                /\ conn[c].srvOpen /\ conn[c].s2c = None)
               => call'[c].result = "ConnectionTimeout"
          /\ call[c].pc \in {"write", "shutdown"}
               => call'[c].result # "ConnectionTimeout"]_vars

\* a call has timed out in its read while the task of its connection holds
\* the connection open, and another call is in flight
C9_Witness ==
    \E c, d \in Calls :
        /\ c # d
        /\ call[c].at = "read" /\ call[c].result = "ConnectionTimeout"
        /\ task[c].pc \in {"read", "lookup", "handler", "write"}
        /\ conn[c].srvOpen
        /\ call[d].pc \in {"write", "shutdown", "read"}

\* C10: send_request_no_response connects, writes, half-closes and returns
\* Ok without reading; whatever the server then does on the connection
\* (answers with success, with an error, or not at all), the result stays Ok.
C10_NoResponseNeverReads ==
    \A c \in Calls :
        call[c].kind = "noresp"
            => /\ call[c].pc # "read"
               /\ call[c].rd = "" /\ call[c].rx = None /\ call[c].resp = None
               /\ conn[c].c2sClosed
                    => /\ call[c].pc = "done"
                       /\ call[c].at = "return"
                       /\ call[c].result = "Ok"
               /\ (call[c].pc = "done" /\ call[c].at = "return")
                    => conn[c].c2s # None /\ conn[c].c2sClosed

\* the call returned Ok and the server then failed to deliver an error
\* response on the connection the client had dropped
C10_Witness ==
    \E c \in Calls :
        /\ call[c].kind = "noresp"
        /\ call[c].result = "Ok"
        /\ task[c].pc = "done"
        /\ task[c].resp # None
        /\ ~task[c].resp[1].success
        /\ task[c].out = "Io"

\* encode then decode with a buffer that holds the whole document
PayloadRoundTrip(p) ==
    DeserializePayload(PayloadToString(p), PayloadToString(p).len)

ResponseRoundTrip(r) ==
    DeserializeResponse(ResponseToString(r), ResponseToString(r).len)

\* C11: every Payload a client encodes (with data of the server's T) and
\* every Response the server encodes decodes to a value equal to the
\* original in request_id, command or success, data and error.
C11_RoundTrip ==
    \A c \in Calls :
        /\ (call[c].pc # "idle" /\ call[c].payload.data[1] \in ServerT)
             => PayloadRoundTrip(call[c].payload) = Some(call[c].payload)
        /\ task[c].resp # None
             => ResponseRoundTrip(task[c].resp[1]) = Some(task[c].resp[1])

\* the Payload half of C11 alone, and the Responses that carry no null data
C11_RoundTripButNullData ==
    \A c \in Calls :
        /\ (call[c].pc # "idle" /\ call[c].payload.data[1] \in ServerT)
             => PayloadRoundTrip(call[c].payload) = Some(call[c].payload)
        /\ (task[c].resp # None /\ task[c].resp[1].data # Some(NullVal))
             => ResponseRoundTrip(task[c].resp[1]) = Some(task[c].resp[1])

\* the connections server s holds: waiting at its listener or accepted
Held(s) == inst[s].got \cup {inst[s].queue[i] : i \in 1..Len(inst[s].queue)}

\* every connection is held by the server that owned the path when it was
\* made: a server holds none made before it bound the path and none made
\* after its socket file was removed
Routed ==
    /\ \A s \in Servers : \A c \in Held(s) :
         /\ inst[s].since < c
         /\ ~inst[s].linked => c <= inst[s].cut
    /\ \A c \in Calls :
         call[c].pc = "write"
            => \E s \in Servers :
                 /\ c \in Held(s)
                 /\ \A t \in Servers :
                      (inst[t].st = "listening" /\ inst[t].since < c)
                          => inst[t].since <= inst[s].since

\* C12: run removes what is at the socket path before it binds, so no start
\* fails because the path exists (AlreadyExists is never returned); a server
\* started on the path of a running server takes the path over: every later
\* connection reaches the new server, the old one receives none.
C12_StartTakesPathOver ==
    /\ \A s \in Servers : inst[s].st # "failed" /\ inst[s].err # "AlreadyExists"
    /\ Routed

\* what does hold: a start fails only with Io and only when another server
\* bound the path between this server's removal and its bind
C12_FailsOnlyWhenRaced ==
    /\ \A s \in Servers :
         inst[s].st = "failed"
            => /\ inst[s].err = "Io"
               /\ \E t \in Servers \ {s} : inst[t].st = "listening"
    /\ Routed

\* a second server has taken the path over from a listening one and holds a
\* connection made since, while the first holds one made before
C12_TakenOver ==
    \E s, t \in Servers :
        /\ s # t
        /\ inst[s].st = "listening" /\ ~inst[s].linked /\ Held(s) # {}
        /\ inst[t].st = "listening" /\ inst[t].linked /\ Held(t) # {}

\* the one read of the task of connection c returned bytes that are not one
\* whole Payload
Undecodable(c) ==
    /\ task[c].reads > 0
    /\ task[c].n > 0
    /\ \/ task[c].n < conn[c].c2s[1].len
       \/ conn[c].c2s[1].doc.data[1] = "null"
       \/ conn[c].c2s[1].doc.data[2] = Alien

\* C13: when the bytes of the server's one read (at most 8192) do not decode
\* as one Payload, malformed or cut short, the task ends with InvalidRequest,
\* no handler is looked up or invoked and nothing is written.
C13_UndecodableIsDropped ==
    \A c \in Calls :
        Undecodable(c)
            => /\ task[c].pc = "done"
               /\ task[c].out = "InvalidRequest"
               /\ task[c].payload = NoPayload
               /\ task[c].handler = None
               /\ task[c].invoked = 0
               /\ task[c].resp = None
               /\ task[c].writes = 0
               /\ conn[c].s2c = None
               /\ ~conn[c].srvOpen

\* one request was dropped as malformed, another as longer than the buffer
C13_Witness ==
    \E c, d \in Calls :
        /\ Undecodable(c) /\ Undecodable(d)
        /\ call[c].payload.data = Alien /\ task[c].n = conn[c].c2s[1].len
        /\ call[d].payload.data = Big /\ task[d].n = BufSize
        /\ task[c].out = "InvalidRequest"
        /\ task[d].out = "InvalidRequest"

\* C14: when the server's one read on a connection returns zero bytes, the
\* task ends with Ok, having looked up and invoked no handler, written
\* nothing and read once.
C14_EmptyReadEndsOk ==
    \A c \in Calls :
        (task[c].reads > 0 /\ task[c].n = 0)
            => /\ task[c].pc = "done"
               /\ task[c].out = "Ok"
               /\ task[c].reads = 1
               /\ task[c].payload = NoPayload
               /\ task[c].handler = None
               /\ task[c].invoked = 0
               /\ task[c].resp = None
               /\ task[c].writes = 0
               /\ conn[c].s2c = None
               /\ ~conn[c].srvOpen

\* a peer connected and closed without sending; its task has ended
C14_Witness ==
    \E c \in Calls :
        /\ call[c].kind = "peer"
        /\ conn[c].c2s = None
        /\ task[c].reads = 1 /\ task[c].n = 0
        /\ task[c].out = "Ok"

\* the steps the task of connection c has made, in the order of the code
TaskStep(c) ==
    CASE task[c].pc = "none"    -> 0
      [] task[c].pc = "read"    -> 1
      [] task[c].pc = "lookup"  -> 2
      [] task[c].pc = "handler" -> 3
      [] task[c].pc = "write"   -> 4
      [] OTHER                  -> 5

\* C15: on every connection the server's steps happen in one order: the one
\* read, then the lookup and the handler, then the one write; a connection
\* is read at most once, at most one Response is written to it, and the
\* write ends the connection.
C15_StepsInOrder ==
    [][\A c \in Calls :
          /\ task'[c] # task[c] => TaskStep(c) < 5 /\ TaskStep(c)' > TaskStep(c)
          /\ task'[c].reads > task[c].reads
               => /\ task[c].pc = "read"
                  /\ task[c].reads = 0 /\ task'[c].reads = 1
                  /\ task[c].handler = None /\ task[c].invoked = 0
                  /\ task[c].writes = 0
          /\ task'[c].handler # task[c].handler
               => task[c].pc = "lookup" /\ task[c].reads = 1 /\ task[c].writes = 0
          /\ task'[c].invoked > task[c].invoked
               => /\ task[c].pc = "handler"
                  /\ task[c].reads = 1 /\ task[c].handler # None
                  /\ task[c].invoked = 0 /\ task'[c].invoked = 1
                  /\ task[c].writes = 0
          /\ task'[c].writes > task[c].writes
               => /\ task[c].pc = "write"
                  /\ task[c].reads = 1
                  /\ task[c].handler # None => task[c].invoked = 1
                  /\ task[c].writes = 0 /\ task'[c].writes = 1
                  /\ task'[c].pc = "done"
                  /\ ~conn'[c].srvOpen
          /\ conn'[c].s2c # conn[c].s2c
               => /\ conn[c].s2c = None
                  /\ task'[c].writes > task[c].writes
                  /\ conn'[c].s2c = Some(ResponseToString(task[c].resp[1]))]_vars

\* a connection went through read, lookup, handler and write, once each
C15_Witness ==
    \E c \in Calls :
        /\ task[c].pc = "done"
        /\ task[c].reads = 1
        /\ task[c].handler # None
        /\ task[c].invoked = 1
        /\ task[c].writes = 1
        /\ conn[c].s2c # None
        /\ ~conn[c].srvOpen

\* the task of connection c ends with an error in this step
TaskFails(c) == task[c].out = "" /\ task'[c].out \notin {"", "Ok"}

\* C16: once run is listening it stays listening; a step in which accept
\* returns an error, or in which a connection's task ends with an error,
\* leaves the listener, its queue, the registry and every other connection
\* and task as they were; and whenever a connection waits in the queue the
\* loop can accept it.
C16_AcceptLoopNeverStops ==
    /\ [](srv = "listening" /\ backlog # <<>> => ENABLED Accept)
    /\ [][/\ srv = "listening" => srv' = "listening"
          /\ (accept_failed' /\ ~accept_failed)
               => UNCHANGED <<path, srv, handlers, backlog, call, conn, task>>
          /\ \A c \in Calls :
               TaskFails(c)
                  => /\ UNCHANGED <<path, srv, handlers, backlog>>
                     /\ \A d \in Calls \ {c} :
                          task'[d] = task[d] /\ conn'[d] = conn[d]]_vars

\* accept has failed, the task of one connection has ended with an error,
\* and a later connection has been accepted, handled and answered
C16_Witness ==
    \E c, d \in Calls :
        /\ c < d
        /\ srv = "listening"
        /\ accept_failed
        /\ task[c].out \in {"InvalidRequest", "Io"}
        /\ task[d].out = "Ok"
        /\ task[d].writes = 1
        /\ call[d].result = "Ok"

\* connection c keeps its handling unit: its task is inside a handler call,
\* or waits in its read for a peer that sends nothing and does not close
Occupied(c) ==
    \/ task[c].pc = "handler"
    \/ task[c].pc = "read" /\ call[c].pc = "silent"

\* the server's next step for connection d, and the accept of a queued
\* connection, can be taken now
CanProceed(d) ==
    /\ (task[d].pc = "read" /\ conn[d].c2s # None) => ENABLED PollTaskRead(d)
    /\ task[d].pc = "lookup" => ENABLED PollTaskLookup(d)
    /\ task[d].pc = "write" => ENABLED PollTaskWrite(d)

CanAccept == (srv = "listening" /\ backlog # <<>>) => ENABLED PollAccept

\* C17: while one connection's unit is occupied by a slow handler or by a
\* silent peer, the accept loop still accepts and every other connection is
\* still read, dispatched and answered.
C17_NoConnectionWaitsForAnother ==
    \A c \in Calls :
        Occupied(c) => CanAccept /\ \A d \in Calls \ {c} : CanProceed(d)

\* what does hold: a silent peer holds up nobody, and neither does a handler
\* as long as a worker thread is left
C17_WaitsOnlyForAWorker ==
    \A c \in Calls :
        (Occupied(c) /\ FreeWorker) => CanAccept /\ \A d \in Calls \ {c} : CanProceed(d)

\* a peer is silent on an accepted connection while another connection has
\* been answered
C17_SilentPeerPassed ==
    \E c, d \in Calls :
        /\ c < d
        /\ task[c].pc = "read" /\ call[c].pc = "silent"
        /\ task[d].out = "Ok" /\ call[d].result = "Ok"

\* C18: registration is permitted during serving: while run is accepting
\* and handling connections, register_handler can be called and take effect.
C18_RegistrationWhileServing ==
    srv = "listening"
        => \A k \in Commands, h \in Handlers : ENABLED RegisterHandler(k, h)

\* what does hold: from the moment run is called the registry is what it was
C18_RegistryFixedByRun ==
    [][srv # "new" => handlers' = handlers]_vars

\* the call c has returned an error from the step `at`
FailedAt(c, at) ==
    call[c].pc = "done" /\ call[c].result # "Ok" /\ call[c].at = at

\* C19: a call of send_request or send_request_no_response makes exactly
\* one connect attempt, on a connection of its own; send_request reads at
\* most once, send_request_no_response never; a call that failed at a step
\* has done nothing after that step, and a call that has returned does
\* nothing more.
C19_OneAttempt ==
    [][\A c \in Calls :
          call'[c].kind \in {"request", "noresp"}
             => /\ call'[c].connects = 1
                /\ call'[c].writes <= 1
                /\ call'[c].reads <= 1
                /\ call'[c].kind = "noresp" => call'[c].reads = 0
                /\ call'[c].pc \in {"connect", "write"}
                     => call'[c].writes = 0 /\ call'[c].reads = 0
                /\ call'[c].pc \in {"shutdown", "read"}
                     => call'[c].writes = 1 /\ call'[c].reads = 0
                /\ FailedAt(c, "connect")'
                     => call'[c].writes = 0 /\ call'[c].reads = 0
                /\ FailedAt(c, "write")'
                     => call'[c].writes = 1 /\ call'[c].reads = 0
                /\ (FailedAt(c, "read") \/ FailedAt(c, "decode"))'
                     => call'[c].writes = 1 /\ call'[c].reads = 1
                /\ call[c].pc = "idle"
                     => conn[c] = NoConn /\ task[c] = NoTask
                /\ call[c].pc = "done"
                     => /\ call'[c] = call[c]
                        /\ conn'[c].c2s = conn[c].c2s
                        /\ conn'[c].cliOpen = conn[c].cliOpen
                        /\ ~conn[c].cliOpen]_vars

\* one call failed at its connect and another at its read, each after one
\* connect attempt
C19_Witness ==
    \E c, d \in Calls :
        /\ FailedAt(c, "connect") /\ call[c].connects = 1 /\ call[c].writes = 0
        /\ FailedAt(d, "read") /\ call[d].connects = 1
        /\ call[d].writes = 1 /\ call[d].reads = 1

\* the peer of connection c is still there to be answered: its call waits
\* in the response read
Answerable(c) == call[c].pc = "read" /\ conn[c].cliOpen

\* C20 as stated: when the task of a connection ends with a transport or
\* decode error while the peer can still be written to, the peer is sent a
\* Response with success = false.
C20_ErrorsAreAnswered ==
    \A c \in Calls :
        (task[c].out \in {"InvalidRequest", "Io"} /\ Answerable(c))
            => /\ conn[c].s2c # None
               /\ ~conn[c].s2c[1].doc.success

\* C20, amended: a transport or decode error of the server is never turned
\* into a Response.  A request that does not decode is dropped with nothing
\* written, writable connection or not, and a failed write delivers nothing;
\* the Responses with success = false that reach a peer are those for an
\* unknown command, for a handler's Err and a handler's own error Response.
C20_ErrorsAreNotAnswered ==
    \A c \in Calls :
        /\ task[c].out \in {"InvalidRequest", "Io"} => conn[c].s2c = None
        /\ task[c].out = "InvalidRequest" => task[c].resp = None /\ task[c].writes = 0
        /\ task[c].out = "Io" => task[c].writes = 1 /\ ~Answerable(c)
        /\ (conn[c].s2c # None /\ ~conn[c].s2c[1].doc.success)
             => /\ Dispatched(c)
                /\ task[c].out = "Ok"
                /\ conn[c].s2c = Some(ResponseToString(task[c].resp[1]))
                /\ \/ /\ task[c].ret = None
                      /\ task[c].resp[1] =
                           NotFoundResponse(task[c].payload.request_id, task[c].payload.command)
                   \/ /\ task[c].ret # None
                      /\ task[c].resp[1] =
                           HandlerResponse(task[c].payload.request_id, task[c].ret[1])

\* a request failed to decode, its peer waits for the answer on an open
\* connection, and nothing has been or will be written to it
C20_Witness ==
    \E c \in Calls :
        /\ task[c].pc = "done"
        /\ task[c].out = "InvalidRequest"
        /\ Answerable(c)
        /\ conn[c].s2c = None

\* the one read of the task of connection c returned one whole Payload
Decodable(c) == task[c].reads > 0 /\ task[c].n > 0 /\ ~Undecodable(c)

\* the command of the request sent on connection c is in the registry
Registered(c) == handlers[call[c].payload.command] # None

\* C21: a handler is invoked exactly once for each connection whose one read
\* decodes to a Payload naming a registered command: the closure registered
\* under that command, called with that payload; no handler is invoked on a
\* connection whose read was empty or undecodable or whose command is not
\* registered.
C21_HandlerOncePerRequest ==
    \A c \in Calls :
        /\ task[c].invoked <= 1
        /\ (task[c].invoked = 0) <=> (task[c].arg = None)
        /\ task[c].invoked = 1
             => /\ Decodable(c) /\ Registered(c)
                /\ task[c].payload = call[c].payload
                /\ task[c].arg =
                     Some(<<handlers[call[c].payload.command][1], call[c].payload>>)
        /\ (Decodable(c) /\ Registered(c) /\ task[c].pc \in {"write", "done"})
             => task[c].invoked = 1
        /\ (task[c].reads > 0 /\ ~(Decodable(c) /\ Registered(c)))
             => task[c].invoked = 0 /\ task[c].pc # "handler"

\* a request was handled once by the closure registered under its command,
\* while another request, decoded too, named a command that is not
\* registered and reached no handler
C21_Witness ==
    \E c, d \in Calls :
        /\ task[c].invoked = 1 /\ task[c].pc = "done"
        /\ \E k \in Commands :
             /\ k # call[c].payload.command
             /\ handlers[k] = None
             /\ call[d].payload.command = k
             /\ Decodable(d)
             /\ task[d].pc = "done" /\ task[d].invoked = 0

\* the positions in the history of the registrations under command k
RegsOf(k) == {i \in 1..Len(regs) : regs[i][1] = k}

\* the closure of the most recent registration under k, if there was one
LastRegistered(k) ==
    IF RegsOf(k) = {} THEN None
    ELSE Some(regs[CHOOSE i \in RegsOf(k) : \A j \in RegsOf(k) : j <= i][2])

\* C22: after any sequence of register_handler calls the registry holds,
\* for each command name registered, exactly the closure of the most recent
\* registration under that name, and nothing for any other name: a
\* registration replaces, never fails, never duplicates, and leaves the
\* other commands' entries alone.
C22_LastRegistrationWins ==
    /\ \A k \in Commands : handlers[k] = LastRegistered(k)
    /\ Cardinality({k \in Commands : handlers[k] # None})
         = Cardinality({regs[i][1] : i \in 1..Len(regs)})
    /\ srv = "new"
         => \A k \in Commands, h \in Handlers : ENABLED RegisterHandler(k, h)

\* a command was registered, then another, then the first again with a
\* different closure
C22_Witness ==
    \E i, j, m \in 1..Len(regs) :
        /\ i < j /\ j < m
        /\ regs[i][1] = regs[m][1]
        /\ regs[i][2] # regs[m][2]
        /\ regs[j][1] # regs[i][1]
        /\ handlers[regs[m][1]] = Some(regs[m][2])
        /\ handlers[regs[j][1]] = Some(regs[j][2])

\* the conditions of C23 on the call c: it connected to a serving server,
\* its command is registered, its request fits the buffer and decodes, and
\* what the server has to write for it fits the buffer
Servable(c) ==
    /\ call[c].kind = "request"
    /\ call[c].saw = "bound"
    /\ srv = "listening"
    /\ Registered(c)
    /\ call[c].payload.data = DataOf(c)
    /\ task[c].resp # None => ResponseToString(task[c].resp[1]).len <= BufSize

\* the call c returned Ok with the Response the server wrote for it
ReturnedServersResponse(c) ==
    /\ call[c].result = "Ok"
    /\ task[c].resp # None
    /\ call[c].rx = Some(ResponseToString(task[c].resp[1]))
    /\ call[c].resp = DeserializeResponse(call[c].rx[1], call[c].n)

====
